---- MODULE Spec2Model ----
(***************************************************************************)
(* Reconciliation and verified download engine (src/download_missing.py). *)
(*                                                                         *)
(* Text is modelled as a tuple of one-character strings so that strip()   *)
(* and lower() are computed, not assumed.  A file on disk is either       *)
(* Absent or a record [size, md5, readable]: size is what stat() reports, *)
(* md5 is the digest hashlib would compute over the content, readable     *)
(* tells whether open()/read() of the file succeeds.                      *)
(***************************************************************************)
EXTENDS Integers, Sequences, FiniteSets, TLC

\* ------------------------------------------------------------------ bounds
MaxSize == 1
MaxRetries == 2
MaxDates == 2
MaxRows == 2
NumRuns == 2

\* ------------------------------------------------------- text primitives
Whitespace == {" "}

UpperToLower ==
  [c \in {"A", "B", "N", "O", "E", "D", "I", "L", "M", "S", "U", "Z"} |->
     CASE c = "A" -> "a" [] c = "B" -> "b" [] c = "N" -> "n"
       [] c = "O" -> "o" [] c = "E" -> "e" [] c = "D" -> "d"
       [] c = "I" -> "i" [] c = "L" -> "l" [] c = "M" -> "m"
       [] c = "S" -> "s" [] c = "U" -> "u" [] c = "Z" -> "z"]

LowerChar(c) == IF c \in DOMAIN UpperToLower THEN UpperToLower[c] ELSE c

Lower(s) == [i \in 1..Len(s) |-> LowerChar(s[i])]

RECURSIVE LStrip(_)
LStrip(s) == IF s # <<>> /\ Head(s) \in Whitespace THEN LStrip(Tail(s)) ELSE s

RECURSIVE RStrip(_)
RStrip(s) ==
  IF s # <<>> /\ s[Len(s)] \in Whitespace
  THEN RStrip(SubSeq(s, 1, Len(s) - 1))
  ELSE s

Strip(s) == RStrip(LStrip(s))

\* ---------------------------------------------------------------- values
\* Python values that an Optional argument or a CSV cell may hold.
None == [kind |-> "None"]
NaN == [kind |-> "NaN"]
PyInt(n) == [kind |-> "int", v |-> n]
PyStr(s) == [kind |-> "str", v |-> s]

\* What md5sum raises instead of returning when the file cannot be read.
HashErr == [kind |-> "OSError"]

\* Lowercase hex digests as hashlib renders them (shortened to two digits).
Digests == {<<"a", "b">>, <<"c", "d">>}

\* Text that an md5sum cell or argument may hold.
Md5Texts ==
  Digests \cup
  { <<>>, <<" ">>,
    <<"A", "B">>, <<"a", "B">>,
    <<" ", "a", "b">>, <<"a", "b", " ">>, <<" ", "A", "B", " ">>,
    <<"n", "a", "n">>, <<"N", "a", "N">>, <<" ", "n", "a", "n">>,
    <<"n", "o", "n", "e">>, <<"N", "O", "N", "E">> }

Sizes == 0..MaxSize

Absent == [exists |-> FALSE]

PresentFiles ==
  [exists : {TRUE}, size : Sizes, md5 : Digests, readable : BOOLEAN]

Files == {Absent} \cup PresentFiles

VerifyModes == {"auto", "md5", "size", "none"}

\* ------------------------------------------------------------- helpers
\* _is_nan: pd.isna(x), or a string whose strip().lower() is nan/none/empty.
_is_nan(x) ==
  \/ x \in {None, NaN}
  \/ /\ x.kind = "str"
     /\ Lower(Strip(x.v)) \in {<<"n", "a", "n">>, <<"n", "o", "n", "e">>, <<>>}

\* Python truthiness: None, "" and 0 are falsy, NaN is not.
Truthy(x) == x \notin {None, PyStr(<<>>), PyInt(0)}

\* str(x).strip() of a text value.
StrStrip(x) == PyStr(Strip(x.v))

\* md5sum: the hex digest of the content, or an exception on an I/O error.
md5sum(f) == IF f.readable THEN PyStr(f.md5) ELSE HashErr

\* `md5sum(str(path)) == str(expected_md5).strip()` inside try/except: an
\* exception yields False.
Md5EqualFolded(f, expected_md5) ==
  LET h == md5sum(f)
  IN IF h = HashErr THEN FALSE ELSE Lower(h.v) = Lower(Strip(expected_md5.v))

Md5Equal(f, expected_md5) ==
  LET h == md5sum(f)
  IN IF h = HashErr THEN FALSE ELSE h = StrStrip(expected_md5)

\* The body of `if verify == "size":`.
SizeBlockLoose(f, expected_size) ==
  IF expected_size # None /\ ~_is_nan(expected_size)
  THEN f.size >= expected_size.v
  ELSE TRUE

SizeBlock(f, expected_size) ==
  IF expected_size # None /\ ~_is_nan(expected_size)
  THEN f.size = expected_size.v
  ELSE TRUE

\* _file_ok, statement by statement.  `verify` is rebound to "size" only in
\* the "md5" branch; the "auto" branch leaves it unchanged, so a call with
\* verify = "auto" and no usable md5 reaches the final `return False`.
file_ok_size_first(f, expected_size, expected_md5, verify) ==
  IF ~f.exists THEN FALSE
  ELSE IF verify = "none" THEN TRUE
  ELSE IF verify \in {"md5", "auto", "size"} THEN SizeBlock(f, expected_size)
  ELSE FALSE

file_ok_none_first(f, expected_size, expected_md5, verify) ==
  IF verify = "none" THEN TRUE
  ELSE IF ~f.exists THEN FALSE
  ELSE IF verify \in {"md5", "auto"}
          /\ Truthy(expected_md5) /\ ~_is_nan(expected_md5)
  THEN Md5Equal(f, expected_md5)
  ELSE IF verify \in {"md5", "size"} THEN SizeBlock(f, expected_size)
  ELSE FALSE

file_ok(f, expected_size, expected_md5, verify) ==
  LET hasMd5 == Truthy(expected_md5) /\ ~_is_nan(expected_md5)
      afterMd5 == IF verify = "md5" /\ ~hasMd5 THEN "size" ELSE verify
  IN IF ~f.exists THEN FALSE
     ELSE IF verify = "none" THEN TRUE
     ELSE IF verify = "md5" /\ hasMd5 THEN Md5Equal(f, expected_md5)
     ELSE IF afterMd5 = "auto" /\ hasMd5 THEN Md5Equal(f, expected_md5)
     ELSE IF afterMd5 = "size" THEN SizeBlock(f, expected_size)
     ELSE FALSE

\* --------------------------------------------------- fetch and retry loop
DefaultRetries == 2

\* The link texts of the model: empty, str(NaN) and one real remote URL.
NanText == <<"n", "a", "n">>
RealUrl == <<"u">>
Urls == {<<>>, NanText, RealUrl}

\* Only a real URL names something the remote can serve.
Fetchable(url) == url = RealUrl

\* What a wget run may leave at its -O destination: the artifact, or
\* something else (an empty or partial file, an error page).
Written ==
  { [exists |-> TRUE, size |-> 1, md5 |-> <<"a", "b">>, readable |-> TRUE],
    [exists |-> TRUE, size |-> 0, md5 |-> <<"c", "d">>, readable |-> TRUE] }

\* _run_wget: the exit code and the file left at dest.  Exit code 0 needs a
\* fetchable URL; the content written is the remote's business.  A failing
\* run may leave dest as it was or leave whatever it wrote before failing.
\* (time.sleep only delays and is not modelled.)
run_wget_unlink(url, dest) ==
  {[rc |-> 0, file |-> g] : g \in IF Fetchable(url) THEN Written ELSE {}}
  \cup {[rc |-> 1, file |-> Absent]}

run_wget(url, dest) ==
  {[rc |-> 0, file |-> g] : g \in IF Fetchable(url) THEN Written ELSE {}}
  \cup {[rc |-> 1, file |-> g] : g \in {dest} \cup Written}

\* One iteration of `for attempt in range(retries + 1)`: "True" and "False"
\* are the two returns, "loop" goes on to the next iteration.
download_step_short(attempt, retries, rc, ok) ==
  IF rc = 0 /\ ok THEN "True"
  ELSE IF attempt + 1 < retries THEN "loop"
  ELSE "False"

download_step_no_return(attempt, retries, rc, ok) ==
  IF attempt + 1 < retries + 1 THEN "loop"
  ELSE IF rc = 0 /\ ok THEN "True"
  ELSE "False"

download_step_rc_only(attempt, retries, rc, ok) ==
  IF rc = 0 THEN "True"
  ELSE IF attempt + 1 < retries + 1 THEN "loop"
  ELSE "False"

download_step_verified_only(attempt, retries, rc, ok) ==
  IF ok THEN "True"
  ELSE IF attempt + 1 < retries + 1 THEN "loop"
  ELSE "False"

download_step(attempt, retries, rc, ok) ==
  IF rc = 0 /\ ok THEN "True"
  ELSE IF attempt + 1 < retries + 1 THEN "loop"
  ELSE "False"

\* ------------------------------------------------------ inventory rows
\* A row of a day's INFOR CSV: the cells of its size, md5sum and
\* downloadsLink columns.  The name column is the row's position: names are
\* unique within one inventory.
FullRow ==
  [size |-> PyInt(1), md5 |-> PyStr(<<"a", "b">>), link |-> PyStr(RealUrl)]

DriverRows ==
  { FullRow,
    [size |-> NaN, md5 |-> NaN, link |-> PyStr(RealUrl)],
    [size |-> PyInt(1), md5 |-> PyStr(<<"a", "b">>), link |-> PyStr(<<" ">>)] }

\* Files found on disk before the first run.
DriverFiles == {Absent} \cup Written

\* expected_size = int(cell) unless the cell is NaN-like or int() raises.
ExpectedSize(cell) ==
  IF _is_nan(cell) THEN None
  ELSE IF cell.kind = "int" THEN cell
  ELSE None

\* expected_md5 = None if _is_nan(cell) else str(cell).strip()
ExpectedMd5(cell) == IF _is_nan(cell) THEN None ELSE StrStrip(cell)

\* url = str(cell).strip(); str() of a missing cell is the text "nan".
UrlOf(cell) == IF cell.kind = "str" THEN Strip(cell.v) ELSE NanText

\* The presence decision of the record loop: the DATA_ROOT copy first, then
\* the copy at the download destination, else a download.
presence_staging_first(check, dest, expected_size, expected_md5, verify) ==
  IF file_ok(dest, expected_size, expected_md5, verify)
  THEN "AlreadyValidStaging"
  ELSE IF file_ok(check, expected_size, expected_md5, verify)
  THEN "AlreadyValidCanonical"
  ELSE "download"

presence_no_staging(check, dest, expected_size, expected_md5, verify) ==
  IF file_ok(check, expected_size, expected_md5, verify)
  THEN "AlreadyValidCanonical"
  ELSE "download"

presence_lenient(check, dest, expected_size, expected_md5, verify) ==
  IF file_ok(check, expected_size, expected_md5, verify)
  THEN "AlreadyValidCanonical"
  ELSE IF dest.exists
  THEN "AlreadyValidStaging"
  ELSE "download"

presence(check, dest, expected_size, expected_md5, verify) ==
  IF file_ok(check, expected_size, expected_md5, verify)
  THEN "AlreadyValidCanonical"
  ELSE IF file_ok(dest, expected_size, expected_md5, verify)
  THEN "AlreadyValidStaging"
  ELSE "download"

\* ------------------------------------------------------------ variables
VARIABLES
  fo,   \* one call of _file_ok: its arguments, whether it returned, its result
  gi,   \* get_file_information.download_product_file: its runs and files
  rt,   \* one call of _download_with_retries: arguments, loop position, log
  run,            \* number of download_product_file calls started so far
  pc,             \* "idle", "date", "record", "fetch" or "raised"
  dt,             \* the date of the while loop
  idx,            \* the row of the for loop
  attempt,        \* the iteration of the retry loop
  verify,         \* the verify argument of the runs
  download_root,  \* "data" (no --output_dir) or "out"
  infor,          \* the INFOR CSV of each date
  disk,           \* the file at each path <root>/<date>/<row name>
  disk0,          \* disk as it was when the current run started
  made,           \* directories the current run called mkdir on
  outcome,        \* per record, how the current run settled it
  prevOutcome,    \* outcome of the previous run
  fetched,        \* records the current run called _run_wget for
  staged,         \* records whose destination copy the current run verified
  results,        \* the list the current run returns
  product,        \* the product argument of the runs
  cred,           \* token argument and NASA_EARTHDATA_TOKEN of the current run
  exit_status,    \* exit status of the script once the current run ended
  start,          \* the start_date argument of the runs, as a date
  end_date,       \* the end_date argument of the runs: a date or None
  end             \* the local `end` of the current run

driver == <<run, pc, dt, idx, attempt, verify, download_root, infor, disk,
            disk0, made, outcome, prevOutcome, fetched, staged, results,
            product, cred, exit_status, start, end_date, end>>

vars == <<fo, rt, gi, driver>>

\* ------------------------------------------------------- driver state space
StartDate == 1
EndDate == MaxDates
Dates == StartDate..EndDate
RowIdx == 1..MaxRows
Roots == {"data", "out"}
data_root == "data"

Slots == Dates \X RowIdx
Paths == Roots \X Dates \X RowIdx

Outcomes ==
  {"AlreadyValidCanonical", "AlreadyValidStaging", "DownloadedOK",
   "FailedAfterRetries"}

NoOutcome == [s \in Slots |-> "none"]
EmptyDisk == [p \in Paths |-> Absent]
NoInfor ==
  [d \in Dates |-> [state |-> "missing", columns |-> <<>>, rows |-> <<>>]]

\* The products of the catalogue (laddas_root.yaml) and one that is not.
KnownProducts == {"VJ103IMG"}
Products == KnownProducts \cup {"NOPE"}

\* token = token or os.getenv(...); the credential is usable when truthy.
TokenArgs == {None, PyStr(<<>>), PyStr(<<"t">>)}
EnvTokens == {None, PyStr(<<>>), PyStr(<<"t">>)}
ResolveToken(token, env) == IF Truthy(token) THEN token ELSE env

\* The token argument and the environment of a call: no usable token
\* anywhere, in each of the four ways, or a token in the environment only.
Creds ==
  {c \in [token : TokenArgs, env : EnvTokens] :
     ~Truthy(c.token) /\ (Truthy(c.env) => c.token = None)}

\* The driver before any call, with nothing on disk.
DriverIdle ==
  /\ run = 0 /\ pc = "idle" /\ dt = StartDate /\ idx = 0 /\ attempt = 0
  /\ verify = "size" /\ download_root = data_root
  /\ infor = NoInfor /\ disk = EmptyDisk /\ disk0 = EmptyDisk
  /\ made = {} /\ outcome = NoOutcome /\ prevOutcome = NoOutcome
  /\ fetched = {} /\ staged = {} /\ results = <<>>
  /\ product \in KnownProducts
  /\ cred = [token |-> None, env |-> PyStr(<<"t">>)]
  /\ exit_status = None
  /\ start = StartDate /\ end_date = PyInt(EndDate) /\ end = EndDate

\* ------------------------------------------- specification: _file_ok calls
SizeArgs == {None, NaN} \cup {PyInt(n) : n \in Sizes}
Md5Args == {None, NaN} \cup {PyStr(t) : t \in Md5Texts}
ModeArgs == VerifyModes \cup {"sha1"}

FoIdle ==
  [path |-> Absent, expected_size |-> None, expected_md5 |-> None,
   verify |-> "none", done |-> FALSE, ret |-> FALSE]

RtIdle ==
  [dest |-> Absent, url |-> <<>>, expected_size |-> None,
   expected_md5 |-> None, verify |-> "none", retries |-> 0, attempt |-> 0,
   state |-> "idle", log |-> <<>>]

\* The inventory fetcher before any call, with no CSV downloaded.
GiIdle ==
  [run |-> 0, pc |-> "idle", dt |-> StartDate, product |-> "VJ103IMG",
   skip_existing |-> TRUE, files |-> [d \in Dates |-> "absent"],
   pre |-> [d \in Dates |-> "absent"], succeeded |-> {}, attempted |-> {},
   results |-> <<>>]

InitFileOk ==
  /\ fo \in [path : Files, expected_size : SizeArgs, expected_md5 : Md5Args,
             verify : ModeArgs, done : {FALSE}, ret : {FALSE}]
  /\ rt = RtIdle
  /\ gi = GiIdle
  /\ DriverIdle

CallFileOk ==
  /\ ~fo.done
  /\ fo' = [fo EXCEPT !.done = TRUE,
                      !.ret = file_ok(fo.path, fo.expected_size,
                                      fo.expected_md5, fo.verify)]
  /\ UNCHANGED <<rt, gi, driver>>

NextFileOk == CallFileOk

SpecFileOk == InitFileOk /\ [][NextFileOk]_vars

\* ----------------------------- specification: _download_with_retries calls
RetryMd5Args == {None, PyStr(<<"a", "b">>)}

InitRetry ==
  /\ DriverIdle
  /\ fo = FoIdle
  /\ gi = GiIdle
  /\ rt \in [dest : Files, url : Urls,
             expected_size : {None} \cup {PyInt(n) : n \in Sizes},
             expected_md5 : RetryMd5Args, verify : VerifyModes,
             retries : 0..MaxRetries, attempt : {0}, state : {"loop"},
             log : {<<>>}]

\* One loop iteration: _run_wget, then the `rc == 0 and _file_ok(...)` test.
\* log records, per attempt, the exit code and whether dest passed _file_ok
\* right after the attempt.
RetryAttempt ==
  /\ rt.state = "loop"
  /\ \E o \in run_wget(rt.url, rt.dest) :
       LET ok == file_ok(o.file, rt.expected_size, rt.expected_md5, rt.verify)
           st == download_step(rt.attempt, rt.retries, o.rc, ok)
       IN rt' = [rt EXCEPT !.dest = o.file,
                           !.log = Append(@, [rc |-> o.rc, verified |-> ok]),
                           !.state = st,
                           !.attempt = IF st = "loop" THEN @ + 1 ELSE @]
  /\ UNCHANGED <<fo, gi, driver>>

NextRetry == RetryAttempt

SpecRetry == InitRetry /\ [][NextRetry]_vars

\* ------------------------------------ specification: download_product_file
\* The INFOR CSV of a date: missing, unreadable by pandas, lacking a
\* required column, or a table of rows.
RowSeqs == UNION {[1..n -> DriverRows] : n \in 0..MaxRows}

\* Header names, and the table headers of the driver's inventories: one
\* with the four columns in mixed case, and that one less each column.
NameKey == <<"n", "a", "m", "e">>
SizeKey == <<"s", "i", "z", "e">>
Md5Key == <<"m", "d", "5", "s", "u", "m">>
LinkKey == <<"d", "o", "w", "n", "l", "o", "a", "d", "s", "l", "i", "n", "k">>
LinkDefault ==
  <<"d", "o", "w", "n", "l", "o", "a", "d", "s", "L", "i", "n", "k">>

FullHeader ==
  << <<"N", "a", "m", "e">>, SizeKey, <<"M", "D", "5", "S", "U", "M">>,
     LinkDefault >>

DropColumn(h, i) == SubSeq(h, 1, i - 1) \o SubSeq(h, i + 1, Len(h))

DriverHeaders ==
  {FullHeader} \cup {DropColumn(FullHeader, i) : i \in DOMAIN FullHeader}

\* cols = {c.lower(): c for c in df.columns}: a later column replaces an
\* earlier one with the same lowered name.
cols(columns) ==
  [k \in {Lower(columns[i]) : i \in DOMAIN columns} |->
     columns[CHOOSE i \in DOMAIN columns :
               /\ Lower(columns[i]) = k
               /\ \A j \in DOMAIN columns : Lower(columns[j]) = k => j <= i]]

DictGet(d, k, default) == IF k \in DOMAIN d THEN d[k] ELSE default

name_col(columns) == DictGet(cols(columns), NameKey, NameKey)
size_col(columns) == DictGet(cols(columns), SizeKey, SizeKey)
md5_col(columns) == DictGet(cols(columns), Md5Key, Md5Key)
link_col(columns) == DictGet(cols(columns), LinkKey, LinkDefault)

required_ok_any(columns) ==
  \E c \in {name_col(columns), size_col(columns), md5_col(columns),
            link_col(columns)} :
    \E i \in DOMAIN columns : columns[i] = c

required_ok(columns) ==
  \A c \in {name_col(columns), size_col(columns), md5_col(columns),
            link_col(columns)} :
    \E i \in DOMAIN columns : columns[i] = c

\* The day's CSV can be used: it exists, pandas parsed it, and it has the
\* four columns.
RequiredOk == [h \in DriverHeaders |-> required_ok(h)]
Usable(inv) == inv.state = "parsed" /\ RequiredOk[inv.columns]

\* A CSV is missing, or not parsable, or a table; a table that lacks a
\* column is taken with one row, the one with a size, an md5 and a link.
InforStates ==
  {[state |-> st, columns |-> <<>>, rows |-> <<>>] :
     st \in {"missing", "unparsable"}}
  \cup {[state |-> "parsed", columns |-> FullHeader, rows |-> rs] :
          rs \in RowSeqs}
  \cup {[state |-> "parsed", columns |-> h, rows |-> <<FullRow>>] :
          h \in DriverHeaders \ {FullHeader}}

RECURSIVE TotalRows(_, _)
TotalRows(inv, d) ==
  IF d > EndDate THEN 0 ELSE Len(inv[d].rows) + TotalRows(inv, d + 1)

\* The paths the runs can refer to: one per inventory row under DATA_ROOT
\* and, with --output_dir, one under the output directory.
UsedPaths(inv, droot) ==
  {p \in Paths : p[1] \in {data_root, droot} /\ p[3] <= Len(inv[p[2]].rows)}

\* The state before the first call, for the given verify arguments, start
\* dates and end_date arguments.
InitRange(modes, starts, end_dates) ==
  /\ run = 0 /\ pc = "idle" /\ idx = 0 /\ attempt = 0
  /\ start \in starts /\ end_date \in end_dates
  /\ dt = start /\ end = start
  /\ verify \in modes
  /\ download_root \in Roots
  /\ infor \in {inv \in [Dates -> InforStates] : TotalRows(inv, StartDate) <= MaxRows}
  /\ \E on \in [UsedPaths(infor, download_root) -> DriverFiles] :
       disk = [p \in Paths |-> IF p \in DOMAIN on THEN on[p] ELSE Absent]
  /\ disk0 = disk
  /\ made = {} /\ outcome = NoOutcome /\ prevOutcome = NoOutcome
  /\ fetched = {} /\ staged = {} /\ results = <<>>
  /\ product \in Products
  /\ product \notin KnownProducts => (infor = NoInfor /\ disk = EmptyDisk)
  /\ cred = [token |-> None, env |-> PyStr(<<"t">>)]
  /\ exit_status = None

\* Every run is over the whole of Dates.
InitDriver == InitRange(VerifyModes, {StartDate}, {PyInt(EndDate)})

Init ==
  /\ fo = FoIdle
  /\ rt = RtIdle
  /\ gi = GiIdle
  /\ InitDriver

\* Exit status of the interpreter: 0 when the script runs to its end, 1 when
\* an exception is not caught.
ExitNormal == 0
ExitUncaught == 1

\* end = the end_date argument when given, else start.
resolve_end_last(s, e) == IF e = None THEN EndDate ELSE e.v

resolve_end(s, e) == IF e = None THEN s ELSE e.v

\* `if not token`, the test before the RuntimeError.
token_missing_none(token) == token = None

token_missing(token) == ~Truthy(token)

\* A call of download_product_file up to the while loop: the credential
\* check (RuntimeError when missing), then results = [] and dt = start.
RunStart ==
  /\ pc = "idle"
  /\ run < NumRuns
  /\ \E c \in Creds :
       /\ cred' = c
       /\ IF token_missing(ResolveToken(c.token, c.env))
          THEN /\ pc' = "raised" /\ exit_status' = PyInt(ExitUncaught)
               /\ end' = end
          ELSE /\ end' = resolve_end(start, end_date)
               /\ IF end' < start
                  THEN pc' = "raised" /\ exit_status' = PyInt(ExitUncaught)
                  ELSE pc' = "date" /\ exit_status' = None
  /\ run' = run + 1
  /\ dt' = start /\ idx' = 0 /\ attempt' = 0
  /\ disk0' = disk
  /\ made' = {}
  /\ prevOutcome' = outcome
  /\ outcome' = NoOutcome
  /\ fetched' = {}
  /\ staged' = {}
  /\ results' = <<>>
  /\ UNCHANGED <<verify, download_root, infor, disk, product, start,
                 end_date>>

\* The directory of the date that download_dir.mkdir creates.
download_dir_in_data_root == <<data_root, dt>>

download_dir == <<download_root, dt>>

\* The head of the while loop and the loading of the day's inventory:
\* return when dt is past the end; otherwise mkdir the download directory,
\* skip the day when its CSV is missing, unparsable or lacks a column, else
\* enter the row loop.
DateStep ==
  /\ pc = "date"
  /\ IF dt > end
     THEN /\ pc' = "idle"
          /\ exit_status' = PyInt(ExitNormal)
          /\ UNCHANGED <<dt, idx, made>>
     ELSE /\ made' = made \cup {download_dir}
          /\ exit_status' = exit_status
          /\ IF Usable(infor[dt]) /\ Len(infor[dt].rows) > 0
             THEN pc' = "record" /\ idx' = 1 /\ dt' = dt
             ELSE pc' = "date" /\ idx' = 0 /\ dt' = dt + 1
  /\ UNCHANGED <<run, attempt, verify, download_root, infor, disk, disk0,
                 outcome, prevOutcome, fetched, staged, results, product,
                 cred, start, end_date, end>>

Row == infor[dt].rows[idx]
check_path == <<data_root, dt, idx>>
dest_path_in_data_root == <<data_root, dt, idx>>
dest_path == <<download_root, dt, idx>>

\* The path a presence check appends to results: the DATA_ROOT copy when it
\* is the valid one, else the copy at the download destination.
result_path_dest(kind, check, dest) == dest

result_path(kind, check, dest) ==
  IF kind = "AlreadyValidCanonical" THEN check ELSE dest

NextRecord_break == pc' = "date" /\ idx' = 0 /\ dt' = dt + 1

\* `continue` of the row loop, or `dt += 1` after its last row.
NextRecord ==
  IF idx < Len(infor[dt].rows)
  THEN pc' = "record" /\ idx' = idx + 1 /\ dt' = dt
  ELSE pc' = "date" /\ idx' = 0 /\ dt' = dt + 1

\* One row up to the download: the presence checks and their two
\* `results.append(...); continue` exits.
RecordStep ==
  /\ pc = "record"
  /\ LET expected_size == ExpectedSize(Row.size)
         expected_md5 == ExpectedMd5(Row.md5)
         kind == presence(disk[check_path], disk[dest_path], expected_size,
                          expected_md5, verify)
     IN /\ staged' = IF kind = "AlreadyValidCanonical"
                     THEN staged
                     ELSE staged \cup {<<dt, idx>>}
        /\ IF kind = "download"
           THEN /\ pc' = "fetch" /\ attempt' = 0
                /\ UNCHANGED <<dt, idx, outcome, results>>
           ELSE /\ outcome' = [outcome EXCEPT ![<<dt, idx>>] = kind]
                /\ results' = Append(results,
                                     result_path(kind, check_path, dest_path))
                /\ attempt' = attempt
                /\ NextRecord
  /\ UNCHANGED <<run, verify, download_root, infor, disk, disk0, made,
                 prevOutcome, fetched, product, cred, exit_status, start,
                 end_date, end>>

\* One iteration of the retry loop of _download_with_retries(url, dest, ...)
\* called with the default retries, and on its return the success/failure
\* branch of the row loop.
FetchStep ==
  /\ pc = "fetch"
  /\ \E o \in run_wget(UrlOf(Row.link), disk[dest_path]) :
       LET ok == file_ok(o.file, ExpectedSize(Row.size),
                         ExpectedMd5(Row.md5), verify)
           st == download_step(attempt, DefaultRetries, o.rc, ok)
       IN /\ disk' = [disk EXCEPT ![dest_path] = o.file]
          /\ fetched' = fetched \cup {<<dt, idx>>}
          /\ IF st = "loop"
             THEN /\ attempt' = attempt + 1
                  /\ UNCHANGED <<pc, dt, idx, outcome, results>>
             ELSE /\ attempt' = 0
                  /\ outcome' = [outcome EXCEPT ![<<dt, idx>>] =
                                   IF st = "True" THEN "DownloadedOK"
                                   ELSE "FailedAfterRetries"]
                  /\ results' = IF st = "True"
                                THEN Append(results, dest_path)
                                ELSE results
                  /\ NextRecord
  /\ UNCHANGED <<run, verify, download_root, infor, disk0, made,
                 prevOutcome, staged, product, cred, exit_status, start,
                 end_date, end>>

Next ==
  \/ (RunStart /\ UNCHANGED <<fo, rt, gi>>)
  \/ (DateStep /\ UNCHANGED <<fo, rt, gi>>)
  \/ (RecordStep /\ UNCHANGED <<fo, rt, gi>>)
  \/ (FetchStep /\ UNCHANGED <<fo, rt, gi>>)

Spec == Init /\ [][Next]_vars

\* The driver over every range of dates, end_date omitted or given (also
\* before start), with the CLI's default verify.
InitDates ==
  /\ fo = FoIdle
  /\ rt = RtIdle
  /\ gi = GiIdle
  /\ InitRange({"size"}, Dates, {None} \cup {PyInt(d) : d \in Dates})

SpecDates == InitDates /\ [][Next]_vars

\* ---------- specification: get_file_information.download_product_file
\* A day's CSV under INFOR: not there, a downloaded inventory, or what an
\* interrupted wget -O left (an empty or truncated file).
CsvFiles == {"absent", "inventory", "partial"}

\* subprocess.run(cmd, check=True) of wget -O local_file: exit status 0
\* with the inventory written, or CalledProcessError with local_file as it
\* was or with what wget had written when it failed.
inventory_wget(file) ==
  {[rc |-> 0, file |-> "inventory"]}
  \cup {[rc |-> 1, file |-> f] : f \in {file, "partial"}}

\* gi.pre is files as it was before the first run; gi.succeeded the dates
\* for which a wget has exited with 0 in any run; gi.attempted the dates
\* for which the current run ran wget.
InitInfor ==
  /\ fo = FoIdle
  /\ rt = RtIdle
  /\ DriverIdle
  /\ \E p \in Products, sk \in BOOLEAN, fs \in [Dates -> CsvFiles] :
       gi = [GiIdle EXCEPT !.product = p, !.skip_existing = sk,
                           !.files = fs, !.pre = fs]

\* A call up to the while loop: results = [], dt = start, root =
\* CFG[product] (KeyError for a product that is not in the catalogue).
GiStart ==
  /\ gi.pc = "idle"
  /\ gi.run < NumRuns
  /\ gi' = [gi EXCEPT !.run = @ + 1,
                      !.pc = IF gi.product \in KnownProducts
                             THEN "loop" ELSE "raised",
                      !.dt = StartDate,
                      !.attempted = {},
                      !.results = <<>>]
  /\ UNCHANGED <<fo, rt, driver>>

\* One iteration of the while loop, or the return after the last date.
GiDate ==
  /\ gi.pc = "loop"
  /\ IF gi.dt > EndDate
     THEN gi' = [gi EXCEPT !.pc = "idle"]
     ELSE IF gi.skip_existing /\ gi.files[gi.dt] # "absent"
     THEN gi' = [gi EXCEPT !.results = Append(@, gi.dt), !.dt = @ + 1]
     ELSE \E o \in inventory_wget(gi.files[gi.dt]) :
            gi' = [gi EXCEPT
                     !.files[gi.dt] = o.file,
                     !.attempted = @ \cup {gi.dt},
                     !.succeeded = IF o.rc = 0 THEN @ \cup {gi.dt} ELSE @,
                     !.results = IF o.rc = 0 THEN Append(@, gi.dt) ELSE @,
                     !.dt = @ + 1]
  /\ UNCHANGED <<fo, rt, driver>>

NextInfor == GiStart \/ GiDate

SpecInfor == InitInfor /\ [][NextInfor]_vars

\* =================================================================== claims
AttemptSucceeded(e) == e.rc = 0 /\ e.verified

\* C1. Retry bound: the fetch executor is never invoked more than
\* retries + 1 times, and a call in which every attempt failed has invoked
\* it exactly retries + 1 times and returned False.
C1_RetryBound ==
  /\ Len(rt.log) <= rt.retries + 1
  /\ (rt.state = "False") => (Len(rt.log) = rt.retries + 1)
  /\ (/\ rt.state \in {"True", "False"}
      /\ \A k \in 1..Len(rt.log) : ~AttemptSucceeded(rt.log[k]))
     => (rt.state = "False" /\ Len(rt.log) = rt.retries + 1)
  /\ (/\ Len(rt.log) = rt.retries + 1
      /\ \A k \in 1..Len(rt.log) : ~AttemptSucceeded(rt.log[k]))
     => rt.state = "False"

C1_Witness ==
  /\ rt.state = "False"
  /\ rt.retries = MaxRetries
  /\ Len(rt.log) = MaxRetries + 1

\* C2 as stated: if attempt k is the first after which dest passes
\* verification, the call returned True after exactly k attempts.
C2_AsStated ==
  \A k \in 1..Len(rt.log) :
    (/\ rt.log[k].verified
     /\ \A j \in 1..(k - 1) : ~rt.log[j].verified)
    => (rt.state = "True" /\ Len(rt.log) = k)

\* C2 amended. Short-circuit: if attempt k is the first one that both exited
\* with status 0 and left dest passing verification, the call returned True
\* after exactly k attempts; no attempt follows a successful one.
C2_ShortCircuit ==
  /\ \A k \in 1..Len(rt.log) :
       (/\ AttemptSucceeded(rt.log[k])
        /\ \A j \in 1..(k - 1) : ~AttemptSucceeded(rt.log[j]))
       => (rt.state = "True" /\ Len(rt.log) = k)
  /\ \A k \in 1..(Len(rt.log) - 1) : ~AttemptSucceeded(rt.log[k])

C2_Witness ==
  /\ rt.state = "True"
  /\ Len(rt.log) = 2
  /\ rt.retries = 2
  /\ rt.log[1].rc # 0 /\ rt.log[1].verified

\* ---- records of the inventories, and verification of their two copies
ExistingSlots ==
  {s \in Slots : Usable(infor[s[1]]) /\ s[2] <= Len(infor[s[1]].rows)}

RowOf(s) == infor[s[1]].rows[s[2]]

\* The copy of record s under `root` passed verification when the current
\* run started.
ValidAtStart(root, s) ==
  file_ok(disk0[<<root, s[1], s[2]>>], ExpectedSize(RowOf(s).size),
          ExpectedMd5(RowOf(s).md5), verify)

DestOf(s) == <<download_root, s[1], s[2]>>

RunDone == run >= 1 /\ pc = "idle"

\* C3. Root precedence: a record whose DATA_ROOT copy passes verification
\* ends AlreadyValidCanonical; no fetch is made for it, its destination copy
\* is not verified and not modified.
C3_RootPrecedence ==
  \A s \in ExistingSlots :
    ValidAtStart(data_root, s)
    => /\ outcome[s] \in {"none", "AlreadyValidCanonical"}
       /\ RunDone => outcome[s] = "AlreadyValidCanonical"
       /\ s \notin fetched
       /\ s \notin staged
       /\ disk[DestOf(s)] = disk0[DestOf(s)]

C3_Witness ==
  /\ RunDone
  /\ download_root # data_root
  /\ \E s \in ExistingSlots :
       /\ outcome[s] = "AlreadyValidCanonical"
       /\ disk0[DestOf(s)].exists
       /\ ~ValidAtStart(download_root, s)

\* C4. Staging reuse: a record whose DATA_ROOT copy is missing or fails
\* verification while its copy at the download destination passes ends
\* AlreadyValidStaging, and no fetch is made for it.
C4_StagingReuse ==
  \A s \in ExistingSlots :
    (~ValidAtStart(data_root, s) /\ ValidAtStart(download_root, s))
    => /\ outcome[s] \in {"none", "AlreadyValidStaging"}
       /\ RunDone => outcome[s] = "AlreadyValidStaging"
       /\ s \notin fetched

C4_Witness ==
  /\ RunDone
  /\ \E s \in ExistingSlots :
       /\ outcome[s] = "AlreadyValidStaging"
       /\ disk0[<<data_root, s[1], s[2]>>].exists
       /\ s \notin fetched

\* A blank link cell: missing, empty or whitespace only.
BlankLink(cell) == cell = NaN \/ (cell.kind = "str" /\ Strip(cell.v) = <<>>)

\* C5 as stated. Blank URL: a record with a blank link that is valid in
\* neither root is never fetched and never handed to the retry loop.
C5_BlankUrlNotFetched ==
  \A s \in ExistingSlots :
    (/\ BlankLink(RowOf(s).link)
     /\ ~ValidAtStart(data_root, s)
     /\ ~ValidAtStart(download_root, s))
    => /\ s \notin fetched
       /\ ~(pc = "fetch" /\ <<dt, idx>> = s)
       /\ outcome[s] \notin {"DownloadedOK", "FailedAfterRetries"}

C7_AsStated ==
  \A s \in ExistingSlots :
    (run >= 2 /\ prevOutcome[s] = "DownloadedOK" /\ outcome[s] # "none")
    => outcome[s] = "AlreadyValidCanonical"

\* C7 amended. A record that was DownloadedOK in the previous run is not
\* fetched in this one and ends AlreadyValidCanonical when the download
\* destination is DATA_ROOT, AlreadyValidStaging when it is a separate
\* output directory.
SecondRunOutcome ==
  IF download_root = data_root
  THEN "AlreadyValidCanonical"
  ELSE "AlreadyValidStaging"

C7_SecondRunOutcome ==
  \A s \in ExistingSlots :
    (run >= 2 /\ prevOutcome[s] = "DownloadedOK")
    => /\ outcome[s] \in {"none", SecondRunOutcome}
       /\ RunDone => outcome[s] = SecondRunOutcome
       /\ s \notin fetched

C7_Witness ==
  /\ run = 2 /\ pc = "idle"
  /\ download_root # data_root
  /\ \E s \in ExistingSlots :
       /\ prevOutcome[s] = "DownloadedOK"
       /\ outcome[s] = "AlreadyValidStaging"

\* The specification's notion of a present expectation: a size is present
\* when it is a number; a hash is present when it is text other than nan,
\* none or blank.
SizePresent(x) == x.kind = "int"
HashPresent(x) ==
  /\ x.kind = "str"
  /\ Lower(Strip(x.v)) \notin {<<>>, NanText, <<"n", "o", "n", "e">>}

\* C8. Hash verification: under md5 and auto with an expected hash present,
\* _file_ok returns True exactly when the file exists and the digest md5sum
\* computes for it equals the (trimmed) expected hash; the expected size
\* plays no part.
C8_HashVerification ==
  (/\ fo.done
   /\ fo.verify \in {"md5", "auto"}
   /\ HashPresent(fo.expected_md5))
  => (fo.ret <=> (/\ fo.path.exists
                  /\ fo.path.readable
                  /\ fo.path.md5 = Strip(fo.expected_md5.v)))

C8_Witness ==
  /\ fo.done
  /\ fo.verify = "auto"
  /\ HashPresent(fo.expected_md5)
  /\ fo.path.exists /\ fo.path.readable
  /\ fo.expected_size = PyInt(fo.path.size)
  /\ fo.path.md5 # Strip(fo.expected_md5.v)
  /\ ~fo.ret

\* C9 as stated. Size verification: with an expected size present, under
\* size (any hash) and under md5 and auto when no hash is present, _file_ok
\* returns True exactly when the file exists and its length equals the
\* expected size.
C9_SizeVerification ==
  (/\ fo.done
   /\ SizePresent(fo.expected_size)
   /\ \/ fo.verify = "size"
      \/ fo.verify \in {"md5", "auto"} /\ ~HashPresent(fo.expected_md5))
  => (fo.ret <=> (fo.path.exists /\ fo.path.size = fo.expected_size.v))

\* C10 as stated. Under md5 and auto, an expected hash that differs from the
\* computed digest only in letter case or surrounding whitespace is
\* accepted, and an I/O error while hashing yields False.
C10_FoldedComparison ==
  (/\ fo.done
   /\ fo.verify \in {"md5", "auto"}
   /\ HashPresent(fo.expected_md5)
   /\ fo.path.exists)
  => /\ (fo.path.readable /\ Lower(Strip(fo.expected_md5.v)) = fo.path.md5)
        => fo.ret
     /\ ~fo.path.readable => ~fo.ret

\* C11 as stated. Auto equals Hash: a call under auto returns what the same
\* call under md5 returns.
C11_AutoEqualsHash ==
  (fo.done /\ fo.verify = "auto")
  => (fo.ret <=> file_ok(fo.path, fo.expected_size, fo.expected_md5, "md5"))

\* C12 as stated. Existence-only records: with neither a size nor a hash
\* present, under each of auto, md5, size and none _file_ok returns whether
\* the file exists.
C12_ExistenceOnly ==
  (/\ fo.done
   /\ fo.verify \in VerifyModes
   /\ ~SizePresent(fo.expected_size)
   /\ ~HashPresent(fo.expected_md5))
  => (fo.ret <=> fo.path.exists)

\* C13. Nonexistent path: _file_ok returns False for a path that does not
\* exist, whatever the mode (defined or not) and the expectations.
C13_NonexistentPath == (fo.done /\ ~fo.path.exists) => ~fo.ret

C13_Witness ==
  /\ fo.done
  /\ ~fo.path.exists
  /\ fo.verify = "none"
  /\ ~fo.ret

\* Steps a started call can still take, counted from the loops' bounds:
\* the dates left, the rows left in the date, the attempts left for the row.
Running == pc \in {"date", "record", "fetch"}
RowCost == DefaultRetries + 2
DateCost == 1 + MaxRows * RowCost

Remaining ==
  CASE pc = "date" -> (end + 1 - dt) * DateCost + 1
    [] pc = "record" ->
         (end - dt) * DateCost + 1
         + (Len(infor[dt].rows) - idx + 1) * RowCost
    [] pc = "fetch" ->
         (end - dt) * DateCost + 1
         + (Len(infor[dt].rows) - idx) * RowCost
         + (DefaultRetries + 1 - attempt)
    [] OTHER -> 0

\* The step at the call's position is defined: the head of the while loop
\* has no other guard; a row step has its row; a fetch has an outcome.
CanStep ==
  \/ pc = "date"
  \/ /\ pc \in {"record", "fetch"}
     /\ dt \in Dates
     /\ Usable(infor[dt])
     /\ idx \in 1..Len(infor[dt].rows)
     /\ pc = "fetch" =>
          /\ attempt \in 0..DefaultRetries
          /\ run_wget(UrlOf(Row.link), disk[dest_path]) # {}

\* C14. The run always completes: a started call can always take a step and
\* every step lowers a natural number, so the call returns; when it has
\* returned, every record of every date with a usable inventory has an
\* outcome, and an outcome once given is not changed in the call, so a
\* record that failed after its retries stops neither the records nor the
\* dates after it.
C14_RunCompletes ==
  /\ [](Running => (Remaining \in Nat /\ CanStep))
  /\ [][Running => Remaining' < Remaining]_vars
  /\ [](RunDone => \A s \in ExistingSlots : outcome[s] \in Outcomes)
  /\ [][\A s \in Slots :
          (outcome[s] # "none" /\ run' = run) => outcome'[s] = outcome[s]]_vars

C14_Witness ==
  /\ RunDone
  /\ \E s \in ExistingSlots, t \in ExistingSlots :
       /\ outcome[s] = "FailedAfterRetries"
       /\ s[1] < t[1]
       /\ outcome[t] \in Outcomes

\* C15 as stated. Exit status reflects failures: a run for a catalogued
\* product that ended has a failure status exactly when a record ended
\* FailedAfterRetries or the credential was missing.
Ended == run >= 1 /\ pc \in {"idle", "raised"}

C15_ExitReflectsFailures ==
  (Ended /\ product \in KnownProducts)
  => ((exit_status # PyInt(ExitNormal))
      <=> \/ \E s \in Slots : outcome[s] = "FailedAfterRetries"
          \/ pc = "raised")

\* ---- inventories that cannot be used, told from the header itself
LacksColumn(h) ==
  \E key \in {NameKey, SizeKey, Md5Key, LinkKey} :
    \A i \in DOMAIN h : Lower(h[i]) # key

HeaderLacksColumn == [h \in DriverHeaders \cup {<<>>} |-> LacksColumn(h)]

InventoryError(d) ==
  \/ infor[d].state \in {"missing", "unparsable"}
  \/ HeaderLacksColumn[infor[d].columns]

\* C16. Per-date inventory error: for a date whose CSV is absent, not
\* parsable or lacks one of the four columns, the row loop is never entered,
\* no record of the date is verified or fetched or given an outcome, no file
\* of the date changes, no path of the date is in the result; and the run
\* goes on: once it has returned, the records of the usable dates all have
\* an outcome.
C16_InventoryError ==
  /\ \A d \in Dates :
       InventoryError(d)
       => /\ pc \in {"record", "fetch"} => dt # d
          /\ \A i \in RowIdx :
               /\ <<d, i>> \notin (staged \cup fetched)
               /\ outcome[<<d, i>>] = "none"
               /\ \A r \in Roots : disk[<<r, d, i>>] = disk0[<<r, d, i>>]
          /\ \A k \in DOMAIN results : results[k][2] # d
  /\ RunDone
     => \A d \in Dates :
          ~InventoryError(d)
          => \A i \in 1..Len(infor[d].rows) : outcome[<<d, i>>] \in Outcomes

C16_Witness ==
  /\ RunDone
  /\ infor[StartDate].state = "parsed"
  /\ InventoryError(StartDate)
  /\ Len(infor[StartDate].rows) = 1
  /\ ~disk[<<data_root, StartDate, 1>>].exists
  /\ ~disk[<<download_root, StartDate, 1>>].exists
  /\ outcome[<<EndDate, 1>>] = "DownloadedOK"

\* C17. Missing credential is fatal before any work: when neither the
\* token argument nor the environment variable is a non-empty text, the call
\* raises, and no directory was created, no record verified, no fetch made,
\* no file changed and nothing returned.
NonEmptyText(x) == x.kind = "str" /\ x.v # <<>>

C17_MissingCredential ==
  (run >= 1 /\ ~NonEmptyText(cred.token) /\ ~NonEmptyText(cred.env))
  => /\ pc = "raised"
     /\ made = {}
     /\ fetched = {} /\ staged = {}
     /\ outcome = NoOutcome
     /\ results = <<>>
     /\ disk = disk0

C17_Witness ==
  /\ pc = "raised"
  /\ cred.token = None
  /\ cred.env = PyStr(<<>>)
  /\ \E s \in ExistingSlots :
       ~disk[<<data_root, s[1], s[2]>>].exists /\ ~disk[DestOf(s)].exists

\* C18 as stated. Unknown product is fatal before any work: a run for a
\* product that is not recognized raises, with a failure status, and creates
\* no directory, verifies no record and makes no fetch.
C18_UnknownProduct ==
  (run >= 1 /\ product \notin KnownProducts)
  => /\ pc = "raised"
     /\ exit_status # PyInt(ExitNormal)
     /\ made = {}
     /\ fetched = {} /\ staged = {}

\* ---- the list a run should return, from the outcomes in processing order
SlotAt(n) == <<StartDate + ((n - 1) \div MaxRows), 1 + ((n - 1) % MaxRows)>>

RECURSIVE PresentPaths(_)
PresentPaths(n) ==
  IF n = 0 THEN <<>>
  ELSE LET s == SlotAt(n)
       IN PresentPaths(n - 1) \o
          (CASE outcome[s] = "AlreadyValidCanonical" ->
                  << <<data_root, s[1], s[2]>> >>
             [] outcome[s] \in {"AlreadyValidStaging", "DownloadedOK"} ->
                  << DestOf(s) >>
             [] OTHER -> <<>>)

\* C19. The returned list is exactly the present files: in processing
\* order, the DATA_ROOT path of each record that ended AlreadyValidCanonical
\* and the destination path of each that ended AlreadyValidStaging or
\* DownloadedOK, nothing for a record that failed; and the file at every
\* path of the list passes _file_ok with the record's size and md5 under
\* the run's verify.
C19_ReturnedList ==
  /\ results = PresentPaths(MaxDates * MaxRows)
  /\ \A k \in DOMAIN results :
       LET p == results[k]
           row == infor[p[2]].rows[p[3]]
       IN file_ok(disk[p], ExpectedSize(row.size), ExpectedMd5(row.md5),
                  verify)

C19_Witness ==
  /\ RunDone
  /\ download_root # data_root
  /\ Len(results) = 1
  /\ \E s \in ExistingSlots, t \in ExistingSlots :
       /\ outcome[s] = "FailedAfterRetries"
       /\ outcome[t] = "AlreadyValidCanonical"
       /\ results[1] = <<data_root, t[1], t[2]>>
       /\ disk[DestOf(t)].exists

\* C20 as stated. Exact outcome aggregation: the returned result accounts
\* for every record of the usable inventories, and holds the name and the
\* date of every record that failed.
C20_OutcomeAggregation ==
  RunDone
  => /\ Len(results) = Cardinality(ExistingSlots)
     /\ \A s \in ExistingSlots :
          outcome[s] = "FailedAfterRetries"
          => \E k \in DOMAIN results :
               results[k][2] = s[1] /\ results[k][3] = s[2]

\* C24. An attempt succeeds only with both a zero exit status and a passing
\* verification: a call that returned has returned True exactly when some
\* attempt exited with status 0 and left dest passing _file_ok; an attempt
\* that exited non-zero never ends the call with True, even when dest
\* passed _file_ok after it: it is followed by another attempt or by the
\* return of False.
C24_SuccessNeedsBoth ==
  /\ rt.state \in {"True", "False"}
     => (rt.state = "True"
         <=> \E k \in 1..Len(rt.log) : AttemptSucceeded(rt.log[k]))
  /\ \A k \in 1..Len(rt.log) :
       rt.log[k].rc # 0
       => \/ k < Len(rt.log)
          \/ rt.state = "False"
          \/ (rt.state = "loop" /\ rt.attempt = k)

C24_Witness ==
  /\ rt.state = "False"
  /\ rt.retries = 1
  /\ Len(rt.log) = 2
  /\ \A k \in 1..2 : rt.log[k].rc # 0 /\ rt.log[k].verified

\* C26. Without a separate output directory the download destination is
\* the DATA_ROOT path itself, and no record ends AlreadyValidStaging: each
\* is AlreadyValidCanonical or goes on to the fetch.
C26_NoStagingOutcome ==
  (download_root = data_root)
  => /\ \A s \in Slots : outcome[s] # "AlreadyValidStaging"
     /\ \A s \in ExistingSlots :
          (outcome[s] # "none" /\ outcome[s] # "AlreadyValidCanonical")
          => s \in fetched

C26_Witness ==
  /\ RunDone
  /\ download_root = data_root
  /\ \E s \in ExistingSlots :
       /\ disk0[DestOf(s)].exists
       /\ ~ValidAtStart(data_root, s)
       /\ outcome[s] = "DownloadedOK"

\* C25 as stated. Leftover from a failed run is accepted: a record with
\* neither a size nor an md5, or any record under verify none, that ended
\* FailedAfterRetries in the previous run with a file left at its
\* destination is found already valid by the next run and is not fetched.
ExistenceOnly(s) ==
  \/ verify = "none"
  \/ /\ ~SizePresent(ExpectedSize(RowOf(s).size))
     /\ ~HashPresent(ExpectedMd5(RowOf(s).md5))

C25_LeftoverAccepted ==
  \A s \in ExistingSlots :
    (/\ run = NumRuns
     /\ pc # "raised"
     /\ prevOutcome[s] = "FailedAfterRetries"
     /\ disk0[DestOf(s)].exists
     /\ ExistenceOnly(s))
    => /\ s \notin fetched
       /\ outcome[s] \in
            {"none", "AlreadyValidCanonical", "AlreadyValidStaging"}
       /\ RunDone => outcome[s] # "none"

\* C22. The canonical root is read-only when the roots differ: with an
\* output directory other than DATA_ROOT no file under DATA_ROOT differs
\* from what it was when the run started, no directory is created under
\* DATA_ROOT, and a step changes no file other than the destination path of
\* the record being fetched.
C22_CanonicalReadOnly ==
  /\ [](download_root # data_root
        => /\ \A p \in Paths : p[1] = data_root => disk[p] = disk0[p]
           /\ \A m \in made : m[1] # data_root)
  /\ [][\A p \in Paths :
          disk'[p] # disk[p]
          => (pc = "fetch" /\ p = <<download_root, dt, idx>>)]_vars

C22_Witness ==
  /\ RunDone
  /\ download_root # data_root
  /\ \E s \in ExistingSlots :
       /\ disk0[<<data_root, s[1], s[2]>>].exists
       /\ ~ValidAtStart(data_root, s)
       /\ outcome[s] = "DownloadedOK"
       /\ disk[DestOf(s)] # disk0[DestOf(s)]

\* C23. No deletion: a file that exists keeps existing; once a record has
\* ended FailedAfterRetries its destination file is what the last attempt
\* left and is not touched again in the run; and the attempts for a record
\* change the file of no other record.
C23_NoDeletion ==
  /\ [][\A p \in Paths : disk[p].exists => disk'[p].exists]_vars
  /\ [][\A s \in Slots :
          (outcome[s] = "FailedAfterRetries" /\ run' = run)
          => disk'[DestOf(s)] = disk[DestOf(s)]]_vars
  /\ [][pc = "fetch"
        => \A p \in Paths : p # dest_path => disk'[p] = disk[p]]_vars

C23_Witness ==
  /\ RunDone
  /\ \E s \in ExistingSlots, t \in ExistingSlots :
       /\ s # t
       /\ outcome[s] = "FailedAfterRetries"
       /\ ~disk0[DestOf(s)].exists
       /\ disk[DestOf(s)].exists
       /\ t \in fetched

\* ---- the range of dates a run is asked for, from its arguments
LastAsked == IF end_date = None THEN start ELSE end_date.v
Asked == start..LastAsked

\* C21. Date iteration: within a run dt only moves forward by one day, at
\* the head of the while loop; the loop body of a date is entered once (its
\* mkdir is not repeated) and only for start <= dt <= end; when the run has
\* returned the dates entered are exactly those from start to the end asked
\* for (start itself when end_date is omitted); and nothing of a date
\* outside that range is verified, fetched, changed or returned.
C21_DateIteration ==
  /\ [][(run' = run /\ dt' # dt) => (dt' = dt + 1 /\ pc' = "date")]_vars
  /\ [][(run' = run /\ made' # made)
        => /\ pc = "date"
           /\ dt \in Asked
           /\ <<download_root, dt>> \notin made
           /\ made' = made \cup {<<download_root, dt>>}
           /\ \A d \in Asked : d < dt => <<download_root, d>> \in made]_vars
  /\ [](RunDone => made = {<<download_root, d>> : d \in Asked})
  /\ [](\A d \in Dates \ Asked :
          /\ pc \in {"record", "fetch"} => dt # d
          /\ \A i \in RowIdx :
               /\ outcome[<<d, i>>] = "none"
               /\ <<d, i>> \notin (staged \cup fetched)
               /\ \A r \in Roots : disk[<<r, d, i>>] = disk0[<<r, d, i>>]
          /\ \A k \in DOMAIN results : results[k][2] # d)

C21_Witness ==
  /\ RunDone
  /\ end_date = None
  /\ start = StartDate
  /\ StartDate < EndDate
  /\ outcome[<<StartDate, 1>>] = "DownloadedOK"
  /\ Usable(infor[EndDate])
  /\ Len(infor[EndDate].rows) = 1
  /\ ~disk[<<data_root, EndDate, 1>>].exists
  /\ ~disk[<<download_root, EndDate, 1>>].exists

\* C27 as stated. Inventory fetcher with skip_existing: the CSV of a date
\* is in the returned list only if it was there before the first run or a
\* transfer for the date has succeeded; and a date whose CSV was not there
\* before the first run and for which no transfer has succeeded is not
\* skipped: once the loop is past it, the run has made a transfer for it.
C27_PresentMeansFetched ==
  /\ \A k \in DOMAIN gi.results :
       \/ gi.pre[gi.results[k]] # "absent"
       \/ gi.results[k] \in gi.succeeded
  /\ \A d \in Dates :
       (/\ gi.pc \in {"loop", "idle"}
        /\ gi.run >= 1
        /\ d < gi.dt
        /\ gi.pre[d] = "absent"
        /\ d \notin gi.succeeded)
       => d \in gi.attempted

====
